---------------------------- MODULE Spec2Model ----------------------------
(***************************************************************************)
(* Model of aitviewer/scene/camera.py: the interactive PinholeCamera, the  *)
(* calibrated OpenCVCamera, the WeakPerspectiveCamera sequence camera and  *)
(* the frustum visualisation of the Camera base class.                     *)
(*                                                                         *)
(* Numbers.  Python floats are modelled as fixed-point numbers: the        *)
(* integer n stands for n / S.  Addition and subtraction are exact; a      *)
(* product, quotient or square root is rounded to the nearest multiple of  *)
(* 1/S.  A float32 value (numpy 'f4') is a fixed-point number on the       *)
(* coarser grid of multiples of F4Step / S, and astype('f4') rounds to it. *)
(***************************************************************************)
EXTENDS Integers, Sequences, FiniteSets, TLC

VARIABLES
    cam,        \* the camera object under observation (a record of its attributes)
    CONFIG,     \* aitviewer.configuration.CONFIG (C in the source)
    disk,       \* the export directory: camera_params/ and cam_params.pkl
    viewer,     \* the viewer collaborator handed to Camera.__init__
    result,     \* outcome of the last call: operation, status, returned value
    saved,      \* history: the persisted fields of the camera at the last save_cam
    swept,      \* history: the steps the loop of the last show_frustum took, in order
    steps       \* number of calls the behaviour may still make

vars == <<cam, CONFIG, disk, viewer, result, saved, swept, steps>>

-----------------------------------------------------------------------------
(* Fixed-point arithmetic *)

\* one unit is 1/S; S is the scale of the number representation, not a bound
S == 10 * 1000

\* float32 grid: a multiple of F4Step units
F4Step == 4 * 4

\* Python evaluates the arguments of a call once, before the call: F applied
\* to the values of its arguments
Eval1(F(_), a) == CHOOSE r \in { F(x) : x \in {a} } : TRUE

Eval2(F(_, _), a, b) == CHOOSE r \in { F(x, y) : x \in {a}, y \in {b} } : TRUE

Eval3(F(_, _, _), a, b, c) ==
    CHOOSE r \in { F(x, y, z) : x \in {a}, y \in {b}, z \in {c} } : TRUE

Eval4(F(_, _, _, _), a, b, c, d) ==
    CHOOSE r \in { F(x, y, z, w) : x \in {a}, y \in {b}, z \in {c}, w \in {d} } : TRUE

Abs(a) == IF a < 0 THEN -a ELSE a

Sign(a) == IF a > 0 THEN 1 ELSE IF a < 0 THEN -1 ELSE 0

Max(a, b) == Eval2(LAMBDA x, y : IF x >= y THEN x ELSE y, a, b)

Min(a, b) == Eval2(LAMBDA x, y : IF x <= y THEN x ELSE y, a, b)

\* nearest integer to a / b (b # 0), halves away from zero
RoundDiv(a, b) ==
    Eval2(LAMBDA x, y :
             LET q == (2 * Abs(x) + Abs(y)) \div (2 * Abs(y))
             IN  IF (x < 0) # (y < 0) THEN -q ELSE q,
          a, b)

\* a * b of two fixed-point numbers (split so that the product stays in range)
Mul(a, b) ==
    Eval2(LAMBDA x, y :
             LET p == x * (Abs(y) \div S) + RoundDiv(x * (Abs(y) % S), S)
             IN  IF y < 0 THEN -p ELSE p,
          a, b)

\* a / b of two fixed-point numbers (long division so that a * S stays in range)
Div(a, b) ==
    Eval2(LAMBDA x, y :
             LET v == (Abs(x) \div Abs(y)) * S + RoundDiv((Abs(x) % Abs(y)) * S, Abs(y))
             IN  IF (x < 0) # (y < 0) THEN -v ELSE v,
          a, b)

\* a Python int or a literal such as 2 as a fixed-point number
Fix(n) == n * S

RECURSIVE SqrtIter(_, _, _)
SqrtIter(n, lo, hi) ==
    IF hi - lo <= 1 THEN lo
    ELSE LET mid == (lo + hi) \div 2
         IN  IF mid * mid <= n THEN SqrtIter(n, mid, hi) ELSE SqrtIter(n, lo, mid)

\* nearest integer to the square root of n >= 0
ISqrt(n) ==
    Eval2(LAMBDA x, r : IF x - r * r > r THEN r + 1 ELSE r, n, SqrtIter(n, 0, 46341))

\* ndarray.astype('f4') of one entry: round to the float32 grid
f4(a) == RoundDiv(a, F4Step) * F4Step

-----------------------------------------------------------------------------
(* 3-vectors: np.array of shape (3,) *)

Vec(x, y, z) == <<x, y, z>>

VAdd(a, b) == Eval2(LAMBDA u, v : <<u[1] + v[1], u[2] + v[2], u[3] + v[3]>>, a, b)

VSub(a, b) == Eval2(LAMBDA u, v : <<u[1] - v[1], u[2] - v[2], u[3] - v[3]>>, a, b)

VNeg(a) == Eval1(LAMBDA u : <<-u[1], -u[2], -u[3]>>, a)

\* vector * scalar
VScale(a, k) == Eval2(LAMBDA u, x : <<Mul(u[1], x), Mul(u[2], x), Mul(u[3], x)>>, a, k)

\* vector / scalar
VDiv(a, k) == Eval2(LAMBDA u, x : <<Div(u[1], x), Div(u[2], x), Div(u[3], x)>>, a, k)

\* np.dot
Dot(a, b) ==
    Eval2(LAMBDA u, v : Mul(u[1], v[1]) + Mul(u[2], v[2]) + Mul(u[3], v[3]), a, b)

\* np.cross
Cross(a, b) ==
    Eval2(LAMBDA u, v :
             <<Mul(u[2], v[3]) - Mul(u[3], v[2]),
               Mul(u[3], v[1]) - Mul(u[1], v[3]),
               Mul(u[1], v[2]) - Mul(u[2], v[1])>>,
          a, b)

\* the power of two by which Norm scales a vector whose largest entry is m,
\* so that the sum of the squares stays in range
NormScale(m) ==
    IF m < 26000 THEN 1
    ELSE IF m < 52000 THEN 2
    ELSE IF m < 104000 THEN 4
    ELSE IF m < 208000 THEN 8 ELSE 16

\* the norm of the vector (x, y, z) measured in units of k / S
ScaledNorm(x, y, z, k) ==
    k * ISqrt(RoundDiv(x, k) * RoundDiv(x, k) + RoundDiv(y, k) * RoundDiv(y, k)
              + RoundDiv(z, k) * RoundDiv(z, k))

\* np.linalg.norm: sqrt(x^2 + y^2 + z^2) in units of 1/S.  The norm of a vector
\* along a coordinate axis is exact.
Norm(a) ==
    Eval1(LAMBDA u :
             IF (u[1] = 0 /\ u[2] = 0) \/ (u[1] = 0 /\ u[3] = 0) \/ (u[2] = 0 /\ u[3] = 0)
             THEN Abs(u[1]) + Abs(u[2]) + Abs(u[3])
             ELSE Eval4(ScaledNorm, u[1], u[2], u[3],
                        NormScale(Max(Abs(u[1]), Max(Abs(u[2]), Abs(u[3]))))),
          a)

-----------------------------------------------------------------------------
(* 4x4 matrices: np.array of shape (4, 4), a tuple of four rows *)

Row4(a, b, c, d) == <<a, b, c, d>>

Mat(r1, r2, r3, r4) == <<r1, r2, r3, r4>>

ZeroMat == Mat(Row4(0, 0, 0, 0), Row4(0, 0, 0, 0), Row4(0, 0, 0, 0), Row4(0, 0, 0, 0))

\* entry (i, j) of the float64 product A @ B
MatMulEntry(A, B, i, j) ==
    Mul(A[i][1], B[1][j]) + Mul(A[i][2], B[2][j])
  + Mul(A[i][3], B[3][j]) + Mul(A[i][4], B[4][j])

MatMulRow(A, B, i) ==
    Row4(MatMulEntry(A, B, i, 1), MatMulEntry(A, B, i, 2),
         MatMulEntry(A, B, i, 3), MatMulEntry(A, B, i, 4))

\* np.matmul(A, B) / A @ B of two float64 matrices
MatMul(A, B) ==
    Eval2(LAMBDA X, Y : Mat(MatMulRow(X, Y, 1), MatMulRow(X, Y, 2),
                            MatMulRow(X, Y, 3), MatMulRow(X, Y, 4)),
          A, B)

\* ndarray.astype('f4')
astype_f4(M) ==
    Eval1(LAMBDA X :
             Mat(Row4(f4(X[1][1]), f4(X[1][2]), f4(X[1][3]), f4(X[1][4])),
                 Row4(f4(X[2][1]), f4(X[2][2]), f4(X[2][3]), f4(X[2][4])),
                 Row4(f4(X[3][1]), f4(X[3][2]), f4(X[3][3]), f4(X[3][4])),
                 Row4(f4(X[4][1]), f4(X[4][2]), f4(X[4][3]), f4(X[4][4]))),
          M)

\* entry (i, j) of the float32 product A @ B: each product and each sum is float32
MatMulF4Entry(A, B, i, j) ==
    f4(f4(f4(f4(Mul(A[i][1], B[1][j])) + f4(Mul(A[i][2], B[2][j])))
          + f4(Mul(A[i][3], B[3][j])))
       + f4(Mul(A[i][4], B[4][j])))

MatMulF4Row(A, B, i) ==
    Row4(MatMulF4Entry(A, B, i, 1), MatMulF4Entry(A, B, i, 2),
         MatMulF4Entry(A, B, i, 3), MatMulF4Entry(A, B, i, 4))

\* A @ B of two float32 matrices (numpy keeps the operands' dtype)
MatMulF4(A, B) ==
    Eval2(LAMBDA X, Y : Mat(MatMulF4Row(X, Y, 1), MatMulF4Row(X, Y, 2),
                            MatMulF4Row(X, Y, 3), MatMulF4Row(X, Y, 4)),
          A, B)

\* (transform @ [vector, 1])[:3]
_transform_vector(transform, vector) ==
    Eval2(LAMBDA T, v :
             Vec(Mul(T[1][1], v[1]) + Mul(T[1][2], v[2]) + Mul(T[1][3], v[3]) + T[1][4],
                 Mul(T[2][1], v[1]) + Mul(T[2][2], v[2]) + Mul(T[2][3], v[3]) + T[2][4],
                 Mul(T[3][1], v[1]) + Mul(T[3][2], v[2]) + Mul(T[3][3], v[3]) + T[3][4]),
          transform, vector)

\* M[:3, j]: column j of the upper 3x3 block
Col3(M, j) == Eval1(LAMBDA X : Vec(X[1][j], X[2][j], X[3][j]), M)

\* M[:3, 3]: the translation column
Translation(M) == Eval1(LAMBDA X : Vec(X[1][4], X[2][4], X[3][4]), M)

\* np.linalg.inv of a view matrix [R | t]: the camera pose [R^T | -R^T t]
inv(V) ==
    Eval2(LAMBDA X, t :
             Mat(Row4(X[1][1], X[2][1], X[3][1], -Dot(Col3(X, 1), t)),
                 Row4(X[1][2], X[2][2], X[3][2], -Dot(Col3(X, 2), t)),
                 Row4(X[1][3], X[2][3], X[3][3], -Dot(Col3(X, 3), t)),
                 Row4(0, 0, 0, S)),
          V, Translation(V))

-----------------------------------------------------------------------------
(* aitviewer.scene.camera_utils: the matrix builders *)

\* np.tan(np.deg2rad(fov) / 2) for the fields of view the model constructs
TanHalf(fov) ==
    CASE fov = 90 -> S
      [] fov = 45 -> 4142
      [] fov = 60 -> 5774

perspective_projection(fov, aspect_ratio, near, far) ==
    Mat(Row4(Div(S, Mul(aspect_ratio, TanHalf(fov))), 0, 0, 0),
        Row4(0, Div(S, TanHalf(fov)), 0, 0),
        Row4(0, 0, Div(far + near, near - far), Div(2 * Mul(far, near), near - far)),
        Row4(0, 0, -S, 0))

orthographic_projection(scale_x, scale_y, znear, zfar) ==
    Mat(Row4(Div(S, scale_x), 0, 0, 0),
        Row4(0, Div(S, scale_y), 0, 0),
        Row4(0, 0, Div(2 * S, znear - zfar), Div(zfar + znear, znear - zfar)),
        Row4(0, 0, 0, S))

\* the view matrix with rows right, up, -forward and translation -R @ position
ViewFromBasis(r, u, f, position) ==
    Mat(Row4(r[1], r[2], r[3], -Dot(r, position)),
        Row4(u[1], u[2], u[3], -Dot(u, position)),
        Row4(-f[1], -f[2], -f[3], Dot(f, position)),
        Row4(0, 0, 0, S))

\* a vector scaled to unit length
Normalized(v) == VDiv(v, Norm(v))

\* right = normalize(cross(forward, up)), up = cross(right, forward)
LookAtBasis(f, up, position) ==
    Eval4(LAMBDA r, f2, up2, p : ViewFromBasis(r, Cross(r, f2), f2, p),
          Normalized(Cross(f, up)), f, up, position)

look_at(position, target, up) ==
    Eval3(LookAtBasis, Normalized(VSub(target, position)), up, position)

-----------------------------------------------------------------------------
(* Attributes that may not exist yet, optional values *)

\* an attribute no statement has assigned: reading it raises AttributeError
Absent == [tag |-> "absent", m |-> ZeroMat]

\* an attribute holding a matrix
Value(M) == [tag |-> "value", m |-> M]

\* nothing returned (the call raised, or returns None)
NoRet == <<>>

\* the outcome of a call as the caller sees it; args are the arguments of the
\* call where a property refers to them
Outcome(op, status, ret, diag) ==
    [op |-> op, status |-> status, ret |-> ret, diag |-> diag, args |-> <<>>]

\* the outcome of a call made with the arguments args
WithArgs(outcome, args) == [outcome EXCEPT !.args = args]

-----------------------------------------------------------------------------
(* trimesh.transformations.rotation_matrix, with numpy's sin and cos *)

\* np.sin / np.cos of a fixed-point angle in radians (series, |a| <= pi / 2)
Sin(a) ==
    Eval2(LAMBDA x, x2 : x - RoundDiv(Mul(x2, x), 6) + RoundDiv(Mul(Mul(x2, x2), x), 120),
          a, Mul(a, a))

Cos(a) ==
    Eval1(LAMBDA x2 : S - RoundDiv(x2, 2) + RoundDiv(Mul(x2, x2), 24), Mul(a, a))

\* Rodrigues' formula for the unit axis k, c = cos, s = sin, about point
Rodrigues(k, c, s, point) ==
    Mat(Row4(c + Mul(S - c, Mul(k[1], k[1])),
             Mul(S - c, Mul(k[1], k[2])) - Mul(s, k[3]),
             Mul(S - c, Mul(k[1], k[3])) + Mul(s, k[2]),
             0),
        Row4(Mul(S - c, Mul(k[2], k[1])) + Mul(s, k[3]),
             c + Mul(S - c, Mul(k[2], k[2])),
             Mul(S - c, Mul(k[2], k[3])) - Mul(s, k[1]),
             0),
        Row4(Mul(S - c, Mul(k[3], k[1])) - Mul(s, k[2]),
             Mul(S - c, Mul(k[3], k[2])) + Mul(s, k[1]),
             c + Mul(S - c, Mul(k[3], k[3])),
             0),
        Row4(0, 0, 0, S))

\* M with its translation column set so that point is fixed: M[:3, 3] = point - R @ point
AboutPoint(M, point) ==
    Eval2(LAMBDA R, p :
             Mat(Row4(R[1][1], R[1][2], R[1][3], p[1] - _transform_vector(R, p)[1]),
                 Row4(R[2][1], R[2][2], R[2][3], p[2] - _transform_vector(R, p)[2]),
                 Row4(R[3][1], R[3][2], R[3][3], p[3] - _transform_vector(R, p)[3]),
                 Row4(0, 0, 0, S)),
          M, point)

\* the rotation by angle about the axis through point with the given direction
rotation_matrix(angle, direction, point) ==
    AboutPoint(Eval4(Rodrigues, Normalized(direction), Cos(angle), Sin(angle), point),
               point)

\* np.eye(4)
Eye4 == Mat(Row4(S, 0, 0, 0), Row4(0, S, 0, 0), Row4(0, 0, S, 0), Row4(0, 0, 0, S))

-----------------------------------------------------------------------------
(* PinholeCamera *)

\* PinholeCamera.__init__(fov, orthographic, znear, zfar); orthographic is
\* <<>> for None and <<size>> otherwise.  No matrix attribute is assigned.
PinholeCamera(fov, orthographic, znear, zfar) ==
    [kind        |-> "pinhole",
     fov         |-> fov,
     is_ortho    |-> orthographic # <<>>,
     ortho_size  |-> IF orthographic = <<>> THEN S ELSE orthographic[1],
     position    |-> Vec(0, 0, 5 * (S \div 2)),
     target      |-> Vec(0, 0, 0),
     up          |-> Vec(0, S, 0),
     ZOOM_FACTOR |-> 4 * S,
     ROT_FACTOR  |-> S \div 400,
     PAN_FACTOR  |-> S \div 100,
     near        |-> znear,
     far         |-> zfar,
     projection_matrix      |-> Absent,
     view_matrix            |-> Absent,
     view_projection_matrix |-> Absent]

\* PinholeCamera.forward
forward(c) ==
    LET fwd == VSub(c.target, c.position)
    IN  VDiv(fwd, Norm(fwd))

\* PinholeCamera.right
right(c) == Cross(c.up, forward(c))

\* the fields save_cam writes, as cam_dict
cam_dict(c) ==
    [position    |-> c.position,
     target      |-> c.target,
     up          |-> c.up,
     ZOOM_FACTOR |-> c.ZOOM_FACTOR,
     ROT_FACTOR  |-> c.ROT_FACTOR,
     PAN_FACTOR  |-> c.PAN_FACTOR,
     near        |-> c.near,
     far         |-> c.far]

\* the three assignments that end update_matrices, with the view-projection
\* matrix computed from the single-precision operands
store_matrices_of_rounded_operands(c, P, V) ==
    [c EXCEPT !.projection_matrix      = Value(astype_f4(P)),
              !.view_matrix            = Value(astype_f4(V)),
              !.view_projection_matrix = Value(MatMulF4(astype_f4(P), astype_f4(V)))]

\* the three assignments that end update_matrices in every camera class: P and V
\* are the float64 matrices just computed
store_matrices(c, P, V) ==
    [c EXCEPT !.projection_matrix      = Value(astype_f4(P)),
              !.view_matrix            = Value(astype_f4(V)),
              !.view_projection_matrix = Value(astype_f4(MatMul(P, V)))]

\* the float64 projection and view matrices PinholeCamera.update_matrices computes
pinhole_PV(c, width, height) ==
    LET aspect == RoundDiv(width * S, height)
        P == IF c.is_ortho
             THEN orthographic_projection(Mul(aspect, c.ortho_size), c.ortho_size,
                                          c.near, c.far)
             ELSE perspective_projection(c.fov, aspect, c.near, c.far)
        V == look_at(c.position, c.target, c.up)
    IN  <<P, V>>

\* PinholeCamera.update_matrices(width, height)
update_matrices(c, width, height) ==
    Eval2(LAMBDA x, PV : store_matrices(x, PV[1], PV[2]), c, pinhole_PV(c, width, height))

\* the body shared by get_projection_matrix, get_view_matrix and
\* get_view_projection_matrix: attr is the attribute the getter reads
get_matrix(op, attr) ==
    IF attr.tag = "absent"
    THEN Outcome(op, "AttributeError", NoRet, "")
    ELSE IF attr.tag = "none"
         THEN Outcome(op, "ValueError", NoRet, "update_matrices() must be called before")
         ELSE Outcome(op, "ok", <<attr.m>>, "")

\* dolly_zoom without the clamp of the movement to distance - 0.01
dolly_zoom_unclamped(c, speed, move_target, zs) ==
    LET ortho  == Max(S \div 10000, c.ortho_size - (S \div 10) * Sign(speed))
        norm   == Max(Norm(VSub(c.position, c.target)), Fix(2))
        fwd    == forward(c)
        speed2 == Mul(speed, zs)
    IN  IF move_target
        THEN [c EXCEPT !.ortho_size = ortho,
                       !.position = VAdd(c.position, VScale(VScale(fwd, speed2), norm)),
                       !.target   = VAdd(c.target, VScale(VScale(fwd, speed2), norm))]
        ELSE [c EXCEPT !.ortho_size = ortho,
                       !.position = VAdd(c.position, VScale(fwd, Mul(speed2, norm)))]

\* dolly_zoom whose ortho_size has no lower limit
dolly_zoom_ortho_unclamped(c, speed, move_target, zs) ==
    LET ortho  == c.ortho_size - (S \div 10) * Sign(speed)
        norm   == Max(Norm(VSub(c.position, c.target)), Fix(2))
        fwd    == forward(c)
        speed2 == Mul(speed, zs)
        movement_length     == Mul(speed2, norm)
        max_movement_length == Max(Norm(VSub(c.target, c.position)) - S \div 100, 0)
    IN  IF move_target
        THEN [c EXCEPT !.ortho_size = ortho,
                       !.position = VAdd(c.position, VScale(VScale(fwd, speed2), norm)),
                       !.target   = VAdd(c.target, VScale(VScale(fwd, speed2), norm))]
        ELSE [c EXCEPT !.ortho_size = ortho,
                       !.position = VAdd(c.position,
                                         VScale(fwd, Min(movement_length,
                                                         max_movement_length)))]

\* PinholeCamera.dolly_zoom(speed, move_target) under C.camera_zoom_speed = zs
dolly_zoom(c, speed, move_target, zs) ==
    LET ortho  == Max(S \div 10000, c.ortho_size - (S \div 10) * Sign(speed))
        norm   == Max(Norm(VSub(c.position, c.target)), Fix(2))
        fwd    == forward(c)
        speed2 == Mul(speed, zs)
        movement_length     == Mul(speed2, norm)
        max_movement_length == Max(Norm(VSub(c.target, c.position)) - S \div 100, 0)
    IN  IF move_target
        THEN [c EXCEPT !.ortho_size = ortho,
                       !.position = VAdd(c.position, VScale(VScale(fwd, speed2), norm)),
                       !.target   = VAdd(c.target, VScale(VScale(fwd, speed2), norm))]
        ELSE [c EXCEPT !.ortho_size = ortho,
                       !.position = VAdd(c.position,
                                         VScale(fwd, Min(movement_length,
                                                         max_movement_length)))]

\* pan that moves the target sideways only, not along the local up axis
pan_target_sideways_only(c, mouse_dx, mouse_dy) ==
    LET sideways == Cross(forward(c), c.up)
        up       == Cross(sideways, forward(c))
        speed    == Max(Mul(Norm(VSub(c.target, c.position)), S \div 10), S \div 10)
        speed_x  == Mul(mouse_dx * c.PAN_FACTOR, speed)
        speed_y  == Mul(mouse_dy * c.PAN_FACTOR, speed)
    IN  [c EXCEPT !.position = VAdd(VSub(c.position, VScale(sideways, speed_x)),
                                    VScale(up, speed_y)),
                  !.target   = VSub(c.target, VScale(sideways, speed_x))]

\* PinholeCamera.pan(mouse_dx, mouse_dy)
pan(c, mouse_dx, mouse_dy) ==
    LET sideways == Cross(forward(c), c.up)
        up       == Cross(sideways, forward(c))
        speed    == Max(Mul(Norm(VSub(c.target, c.position)), S \div 10), S \div 10)
        speed_x  == Mul(mouse_dx * c.PAN_FACTOR, speed)
        speed_y  == Mul(mouse_dy * c.PAN_FACTOR, speed)
    IN  [c EXCEPT !.position = VAdd(VSub(c.position, VScale(sideways, speed_x)),
                                    VScale(up, speed_y)),
                  !.target   = VAdd(VSub(c.target, VScale(sideways, speed_x)),
                                    VScale(up, speed_y))]

\* the dot product rotate_azimuth_elevation branches on
pole_dot(c) == Dot(Col3(inv(c.view_matrix.m), 3), c.up)

\* the elevation rotation applied whatever the dot product: no singularity guard
elevation_always_applied(mouse_dy, dot) == TRUE

\* whether rotate_azimuth_elevation applies the elevation rotation
elevation_applied(mouse_dy, dot) ==
    /\ ~(mouse_dy > 0 /\ dot > 0 /\ S - dot < S \div 1000)
    /\ ~(mouse_dy < 0 /\ dot < 0 /\ S + dot < S \div 1000)

\* the azimuth speed of rotate_azimuth_elevation
x_speed(c, dot) ==
    IF S - Abs(dot) < S \div 100 THEN Div(c.ROT_FACTOR, Fix(10)) ELSE c.ROT_FACTOR

\* PinholeCamera.rotate_azimuth_elevation(mouse_dx, mouse_dy), view_matrix assigned
rotate_azimuth_elevation(c, mouse_dx, mouse_dy) ==
    LET cam_pose == inv(c.view_matrix.m)
        dot      == pole_dot(c)
        rot0     == IF elevation_applied(mouse_dy, dot)
                    THEN MatMul(rotation_matrix(c.ROT_FACTOR * (-mouse_dy),
                                                Col3(cam_pose, 1), c.target),
                                Eye4)
                    ELSE Eye4
        rot      == MatMul(rotation_matrix(x_speed(c, dot) * (-mouse_dx),
                                           Col3(cam_pose, 2), c.target),
                           rot0)
    IN  [c EXCEPT !.position = _transform_vector(rot, c.position)]

\* rotate_azimuth that also rebuilds the cached view matrix from the new position
rotate_azimuth_refreshing(c, angle) ==
    LET cam_pose == inv(c.view_matrix.m)
        rot      == rotation_matrix(angle, Col3(cam_pose, 2), c.target)
        moved    == _transform_vector(rot, c.position)
    IN  [c EXCEPT !.position = moved,
                  !.view_matrix = Value(astype_f4(look_at(moved, c.target, c.up)))]

\* PinholeCamera.rotate_azimuth(angle), view_matrix assigned and |angle| >= 1e-8
rotate_azimuth(c, angle) ==
    LET cam_pose == inv(c.view_matrix.m)
        rot      == rotation_matrix(angle, Col3(cam_pose, 2), c.target)
    IN  [c EXCEPT !.position = _transform_vector(rot, c.position)]

\* PinholeCamera.get_ray(x, y, width, height), view_matrix assigned
get_ray(c, x, y, width, height) ==
    LET scale     == IF c.is_ortho THEN c.ortho_size ELSE TanHalf(c.fov)
        screen_x  == Mul(RoundDiv((2 * x + 1) * S, width) - S,
                         RoundDiv(scale * width, height))
        screen_y  == Mul(S - RoundDiv((2 * y + 1) * S, height), scale)
        pixel_2d  == Vec(screen_x, screen_y, IF c.is_ortho THEN 0 ELSE -S)
        cam2world == inv(c.view_matrix.m)
        pixel_3d  == _transform_vector(cam2world, pixel_2d)
        ray_origin == IF c.is_ortho THEN pixel_3d
                      ELSE _transform_vector(cam2world, Vec(0, 0, 0))
        ray_dir   == IF c.is_ortho THEN forward(c) ELSE VSub(pixel_3d, ray_origin)
    IN  <<ray_origin, VDiv(ray_dir, Norm(ray_dir))>>

\* load_cam that restores every field but target
load_cam_without_target(c, d) ==
    [c EXCEPT !.position    = d.position,
              !.up          = d.up,
              !.ZOOM_FACTOR = d.ZOOM_FACTOR,
              !.ROT_FACTOR  = d.ROT_FACTOR,
              !.PAN_FACTOR  = d.PAN_FACTOR,
              !.near        = d.near,
              !.far         = d.far]

\* the assignments of load_cam from the loaded cam_dict
load_cam(c, d) ==
    [c EXCEPT !.position    = d.position,
              !.target      = d.target,
              !.up          = d.up,
              !.ZOOM_FACTOR = d.ZOOM_FACTOR,
              !.ROT_FACTOR  = d.ROT_FACTOR,
              !.PAN_FACTOR  = d.PAN_FACTOR,
              !.near        = d.near,
              !.far         = d.far]

\* the eight persisted attributes of a camera, in the order of the record
Persisted(c) ==
    <<c.position, c.target, c.up, c.ZOOM_FACTOR, c.ROT_FACTOR, c.PAN_FACTOR,
      c.near, c.far>>

-----------------------------------------------------------------------------
(* The scene graph: Node and the renderables a Camera attaches to itself *)

\* no camera has been constructed
NoCamera == [kind |-> "none"]

\* Meshes(...): the camera body, a scene object with identity id
Meshes(id) == [cls |-> "Meshes", id |-> id]

\* Lines(all_lines, ...): the frustum wireframe, one entry of lines per frame
Lines(id, lines) == [cls |-> "Lines", id |-> id, lines |-> lines]

\* RigidBodies(rb_pos, rb_ori): the coordinate system drawn at the camera
RigidBodies(id, rb_pos, rb_ori) ==
    [cls |-> "RigidBodies", id |-> id, rb_pos |-> rb_pos, rb_ori |-> rb_ori]

\* Node.add(child)
add(c, child) == [c EXCEPT !.nodes = Append(@, child)]

\* Node.remove(child): the child with identity id leaves the node
remove(c, id) == [c EXCEPT !.nodes = SelectSeq(@, LAMBDA n : n.id # id)]

\* the children of class cls attached to the camera node
Children(c, cls) == { i \in 1..Len(c.nodes) : c.nodes[i].cls = cls }

-----------------------------------------------------------------------------
(* WeakPerspectiveCamera and OpenCVCamera *)

\* an array argument: ndim is len(a.shape), data the array itself or, for a
\* sequence, the tuple of its per-frame arrays
Arr(ndim, data) == [ndim |-> ndim, data |-> data]

\* a[np.newaxis] when a is a single parameter array: a sequence of one frame
Frames(a, single_ndim) == IF a.ndim = single_ndim THEN <<a.data>> ELSE a.data

\* WeakPerspectiveCamera.__init__(scale, translation, cols, rows, near, far, viewer):
\* the exception raised and no camera, or the camera Camera.__init__ and the
\* assignments build.  has_viewer tells whether viewer is not None.
WeakPerspectiveCamera(scale, translation, cols, rows, near, far, has_viewer) ==
    IF Len(Frames(scale, 1)) # Len(Frames(translation, 1))
    THEN [status |-> "AssertionError", cam |-> NoCamera]
    ELSE [status |-> "ok",
          cam |-> [kind             |-> "weak",
                   n_frames         |-> Len(Frames(scale, 1)),
                   current_frame_id |-> 0,
                   nodes            |-> <<Meshes(1)>>,
                   mesh             |-> 1,
                   next_id          |-> 2,
                   frustum          |-> <<>>,
                   origin           |-> <<>>,
                   viewer           |-> has_viewer,
                   scale            |-> Frames(scale, 1),
                   translation      |-> Frames(translation, 1),
                   cols             |-> cols,
                   rows             |-> rows,
                   near             |-> near,
                   far              |-> far,
                   position         |-> Vec(0, 0, S),
                   _right           |-> Vec(S, 0, 0),
                   _up              |-> Vec(0, S, 0),
                   _forward         |-> Vec(0, 0, -S),
                   projection_matrix      |-> Absent,
                   view_matrix            |-> Absent,
                   view_projection_matrix |-> Absent]]

\* OpenCVCamera.__init__(K, Rt, cols, rows, near, far, viewer).  Rt[:, 3] of an
\* Rt of shape (M, 3, 4) indexes the axis of length 3: IndexError.  Nothing
\* compares the shapes of K and Rt.
OpenCVCamera(K, Rt, cols, rows, near, far, has_viewer) ==
    IF Rt.ndim = 3
    THEN [status |-> "IndexError", cam |-> NoCamera]
    ELSE [status |-> "ok",
          cam |-> [kind             |-> "opencv",
                   n_frames         |-> 1,
                   current_frame_id |-> 0,
                   nodes            |-> <<Meshes(1)>>,
                   mesh             |-> 1,
                   next_id          |-> 2,
                   frustum          |-> <<>>,
                   origin           |-> <<>>,
                   viewer           |-> has_viewer,
                   K                |-> K,
                   Rt               |-> Rt.data,
                   cols             |-> cols,
                   rows             |-> rows,
                   near             |-> near,
                   far              |-> far,
                   projection_matrix      |-> Absent,
                   view_matrix            |-> Absent,
                   view_projection_matrix |-> Absent]]

\* the position property: OpenCVCamera computes -Rt[:, 0:3].T @ Rt[:, 3]
cam_position(c) ==
    IF c.kind = "weak" THEN c.position
    ELSE Eval1(LAMBDA Rt :
                  Vec(-(Mul(Rt[1][1], Rt[1][4]) + Mul(Rt[2][1], Rt[2][4])
                        + Mul(Rt[3][1], Rt[3][4])),
                      -(Mul(Rt[1][2], Rt[1][4]) + Mul(Rt[2][2], Rt[2][4])
                        + Mul(Rt[3][2], Rt[3][4])),
                      -(Mul(Rt[1][3], Rt[1][4]) + Mul(Rt[2][3], Rt[2][4])
                        + Mul(Rt[3][3], Rt[3][4]))),
               c.Rt)

\* the forward property
cam_forward(c) ==
    IF c.kind = "weak" THEN c._forward ELSE Vec(c.Rt[3][1], c.Rt[3][2], c.Rt[3][3])

\* the up property
cam_up(c) ==
    IF c.kind = "weak" THEN c._up ELSE Vec(-c.Rt[2][1], -c.Rt[2][2], -c.Rt[2][3])

\* the right property
cam_right(c) ==
    IF c.kind = "weak" THEN c._right ELSE Vec(c.Rt[1][1], c.Rt[1][2], c.Rt[1][3])

\* the float64 P and V of WeakPerspectiveCamera.update_matrices, from the scale
\* and translation of the current frame
weak_PV(c, width, height) ==
    LET sx == c.scale[c.current_frame_id + 1][1]
        sy == c.scale[c.current_frame_id + 1][2]
        tx == c.translation[c.current_frame_id + 1][1]
        ty == c.translation[c.current_frame_id + 1][2]
        window_ar == RoundDiv(width * S, height)
        camera_ar == RoundDiv(c.cols * S, c.rows)
        ar == Div(camera_ar, window_ar)
        P  == Mat(Row4(Mul(sx, ar), 0, 0, Mul(Mul(tx, sx), ar)),
                  Row4(0, sy, 0, Mul(-ty, sy)),
                  Row4(0, 0, Div(2 * S, c.near - c.far), Div(c.far + c.near, c.near - c.far)),
                  Row4(0, 0, 0, S))
        V  == look_at(c.position, c._forward, Vec(0, S, 0))
    IN  <<P, V>>

\* OpenCVCamera.compute_opengl_view_projection(width, height), as <<P, V>>;
\* K is a single (3, 3) matrix
opencv_PV(c, width, height) ==
    LET Rt == c.Rt
        K  == c.K.data
        V  == Mat(Row4(Rt[1][1], Rt[1][2], Rt[1][3], Rt[1][4]),
                  Row4(-Rt[2][1], -Rt[2][2], -Rt[2][3], -Rt[2][4]),
                  Row4(-Rt[3][1], -Rt[3][2], -Rt[3][3], -Rt[3][4]),
                  Row4(0, 0, 0, S))
        window_cols == RoundDiv(width * S, height) * c.rows
        x_offset    == Mul(window_cols - Fix(c.cols), S \div 2)
        Kgl == Mat(Row4(-K[1][1], 0, -(Fix(c.cols) - K[1][3]) - x_offset, 0),
                   Row4(0, -K[2][2], Fix(c.rows) - K[2][3], 0),
                   Row4(0, 0, -(c.near + c.far), -Mul(c.near, c.far)),
                   Row4(0, 0, -S, 0))
        NDC == Mat(Row4(Div(Fix(-2), window_cols), 0, 0, S),
                   Row4(0, RoundDiv(Fix(-2), c.rows), 0, -S),
                   Row4(0, 0, Div(Fix(2), c.far - c.near),
                        -Div(c.far + c.near, c.far - c.near)),
                   Row4(0, 0, 0, S))
    IN  <<MatMul(NDC, Kgl), V>>

\* update_matrices(width, height) of a WeakPerspectiveCamera or an OpenCVCamera:
\* the exception raised, or the camera with its three matrices assigned.
\* scale[current_frame_id] of a camera without frames raises IndexError; the
\* rows of a K sequence do not form a (4, 4) matrix: ValueError.
seq_update_matrices(c, width, height) ==
    IF c.kind = "weak"
    THEN IF c.current_frame_id >= Len(c.scale)
         THEN [status |-> "IndexError", cam |-> c]
         ELSE [status |-> "ok",
               cam |-> Eval2(LAMBDA x, PV : store_matrices(x, PV[1], PV[2]),
                             c, weak_PV(c, width, height))]
    ELSE IF c.K.ndim = 3
         THEN [status |-> "ValueError", cam |-> c]
         ELSE [status |-> "ok",
               cam |-> Eval2(LAMBDA x, PV : store_matrices(x, PV[1], PV[2]),
                             c, opencv_PV(c, width, height))]

-----------------------------------------------------------------------------
(* Camera: the frustum visualisation *)

\* hide_frustum that forgets the frustum and the origin but leaves them attached
hide_frustum_keeping_children(c) == [c EXCEPT !.frustum = <<>>, !.origin = <<>>]

\* Camera.hide_frustum(): frustum and origin are <<>> for None and otherwise
\* hold the identity of the object
hide_frustum(c) ==
    Eval1(LAMBDA c1 : IF c1.origin # <<>>
                      THEN [remove(c1, c1.origin[1]) EXCEPT !.origin = <<>>]
                      ELSE c1,
          IF c.frustum # <<>>
          THEN [remove(c, c.frustum[1]) EXCEPT !.frustum = <<>>]
          ELSE c)

\* M @ [v, 1]: the homogeneous image of a point
Homogeneous(M, v) ==
    Eval2(LAMBDA T, p :
             <<Mul(T[1][1], p[1]) + Mul(T[1][2], p[2]) + Mul(T[1][3], p[3]) + T[1][4],
               Mul(T[2][1], p[1]) + Mul(T[2][2], p[2]) + Mul(T[2][3], p[3]) + T[2][4],
               Mul(T[3][1], p[1]) + Mul(T[3][2], p[2]) + Mul(T[3][3], p[3]) + T[3][4],
               Mul(T[4][1], p[1]) + Mul(T[4][2], p[2]) + Mul(T[4][3], p[3]) + T[4][4]>>,
          M, v)

\* np.linalg.inv raises LinAlgError on a singular matrix; the singular matrices
\* the cameras of the model produce have a row or a column of zeros
Singular(M) ==
    \/ \E i \in 1..4 : \A j \in 1..4 : M[i][j] = 0
    \/ \E j \in 1..4 : \A i \in 1..4 : M[i][j] = 0

\* the 24 corner points of the frustum in normalised device coordinates, the
\* far rectangle at depth z
FrustumCorners(z) ==
    << Vec(-S, -S, -S), Vec(-S, S, -S), Vec(-S, -S, z), Vec(-S, S, z),
       Vec(S, -S, -S), Vec(S, S, -S), Vec(S, -S, z), Vec(S, S, z),
       Vec(-S, -S, -S), Vec(-S, -S, z), Vec(-S, S, -S), Vec(-S, S, z),
       Vec(S, -S, -S), Vec(S, -S, z), Vec(S, S, -S), Vec(S, S, z),
       Vec(-S, -S, -S), Vec(S, -S, -S), Vec(-S, -S, z), Vec(S, -S, z),
       Vec(-S, S, -S), Vec(S, S, -S), Vec(-S, S, z), Vec(S, S, z) >>

\* the lines of one frame: the 24 corners and the matrix ndc_from_world whose
\* inverse carries each of them to world space (transform is not evaluated)
FrameLines(ndc_from_world, z) ==
    [ndc |-> FrustumCorners(f4(z)), ndc_from_world |-> ndc_from_world]

\* one iteration of the loop of show_frustum on the camera with frame i
\* selected and its matrices just updated
SweepFrame(c, distance) ==
    Eval2(LAMBDA ndc_from_world, world_p :
             IF Singular(ndc_from_world)
             THEN [status |-> "LinAlgError", lines |-> <<>>]
             ELSE Eval1(LAMBDA ndc_p :
                           [status |-> "ok",
                            lines  |-> FrameLines(ndc_from_world, Div(ndc_p[3], ndc_p[4]))],
                        Homogeneous(ndc_from_world, world_p)),
          MatMulF4(c.projection_matrix.m, c.view_matrix.m),
          VAdd(cam_position(c), VScale(cam_forward(c), distance)))

\* the loop that leaves the frame selected before the call selected
KeepFrame(c, i) == c

\* self.current_frame_id = i in the loop of show_frustum
SelectFrame(c, i) == [c EXCEPT !.current_frame_id = i]

\* what one iteration of the loop does, in order, each with the frame selected
\* when it is done: the selection, update_matrices, the two getters
FrameEvents(sel, i, upd_status) ==
    << <<"current_frame_id", i>>, <<"update_matrices", sel.current_frame_id>> >>
    \o (IF upd_status # "ok" THEN <<>>
        ELSE << <<"get_view_matrix", sel.current_frame_id>>,
                <<"get_projection_matrix", sel.current_frame_id>> >>)

\* the outcome of the rest of the loop, after the events of this iteration
After(events, rest) == [rest EXCEPT !.trace = events \o @]

RECURSIVE Sweep(_, _, _, _, _, _)
\* the loop of show_frustum from frame i on; all_lines holds the frames done.
\* An exception leaves the loop with the camera as it is at that point.
\* trace lists the steps the loop has taken.
Sweep(c, i, width, height, distance, all_lines) ==
    IF i >= c.n_frames
    THEN [status |-> "ok", cam |-> c, all_lines |-> all_lines, trace |-> <<>>]
    ELSE Eval2(LAMBDA sel, upd :
                  IF upd.status # "ok"
                  THEN [status |-> upd.status, cam |-> upd.cam, all_lines |-> all_lines,
                        trace |-> FrameEvents(sel, i, upd.status)]
                  ELSE Eval1(LAMBDA fr :
                                IF fr.status # "ok"
                                THEN [status |-> fr.status, cam |-> upd.cam,
                                      all_lines |-> all_lines,
                                      trace |-> FrameEvents(sel, i, upd.status)]
                                ELSE After(FrameEvents(sel, i, upd.status),
                                           Sweep(upd.cam, i + 1, width, height, distance,
                                                 Append(all_lines, fr.lines))),
                             SweepFrame(upd.cam, distance)),
               SelectFrame(c, i),
               seq_update_matrices(SelectFrame(c, i), width, height))

\* np.array([a, b, c]).T: the 3x3 matrix whose columns are a, b and c
Columns3(a, b, c) == <<Vec(a[1], b[1], c[1]), Vec(a[2], b[2], c[2]), Vec(a[3], b[3], c[3])>>

\* the statements of show_frustum after the loop: the Lines and the RigidBodies
\* are created, referenced and attached
AttachFrustum(c, all_lines) ==
    Eval1(LAMBDA c1 :
             [add(c1, RigidBodies(c1.next_id, <<cam_position(c1)>>,
                                  <<Columns3(cam_right(c1), cam_up(c1), cam_forward(c1))>>))
                EXCEPT !.origin = <<c1.next_id>>, !.next_id = c1.next_id + 1],
          [add(c, Lines(c.next_id, all_lines))
             EXCEPT !.frustum = <<c.next_id>>, !.next_id = c.next_id + 1])

\* show_frustum that leaves the frame of the last iteration selected
show_frustum_without_restore(c, width, height, distance) ==
    Eval1(LAMBDA sw :
             IF sw.status # "ok"
             THEN [status |-> sw.status, cam |-> sw.cam, trace |-> sw.trace]
             ELSE [status |-> "ok", cam |-> AttachFrustum(sw.cam, sw.all_lines),
                   trace |-> sw.trace],
          Sweep(hide_frustum(c), 0, width, height, distance, <<>>))

\* Camera.show_frustum(width, height, distance): the exception raised and the
\* camera as the exception leaves it, or the camera with the frustum attached
show_frustum(c, width, height, distance) ==
    Eval2(LAMBDA sw, frame_id :
             IF sw.status # "ok"
             THEN [status |-> sw.status, cam |-> sw.cam, trace |-> sw.trace]
             ELSE [status |-> "ok",
                   cam |-> [AttachFrustum(sw.cam, sw.all_lines)
                              EXCEPT !.current_frame_id = frame_id],
                   trace |-> sw.trace],
          Sweep(hide_frustum(c), 0, width, height, distance, <<>>),
          c.current_frame_id)

\* Camera.view_from_camera(): the camera after the call
view_from_camera(c) == IF c.viewer THEN hide_frustum(c) ELSE c

-----------------------------------------------------------------------------
(* Bounds and inputs *)

\* number of calls in one behaviour
MaxSteps == 3

\* number of dolly_zoom calls in one behaviour of SpecDolly
MaxDollySteps == 5

\* largest coordinate of position and target, in units of 1/S
MaxCoord == 100000

InRange(c) ==
    \A i \in 1..3 : Abs(c.position[i]) <= MaxCoord /\ Abs(c.target[i]) <= MaxCoord

\* (fov, orthographic, znear, zfar) of the cameras constructed
PinholeArgs ==
    { <<45, <<>>, S \div 10, Fix(10)>>,
      <<90, <<Fix(2)>>, S \div 2, Fix(20)>> }

\* values of C.camera_zoom_speed
ZoomSpeeds == { S \div 4, S }

\* (width, height) of the viewport
Viewports == { <<800, 600>>, <<600, 600>> }

\* scroll speeds handed to dolly_zoom
Speeds == { -S, S, Fix(4) }

\* mouse deltas in pixels
PanDeltas == { <<50, 0>>, <<-30, 20>> }

RotDeltas == { <<100, 0>>, <<-40, 60>> }

\* mouse deltas of the orbits near the poles: up, down and sideways only
OrbitDeltas == { <<100, 0>>, <<-40, 60>>, <<20, -60>>, <<0, 40>> }

\* number of calls in one behaviour of SpecOrbit
MaxOrbitSteps == 3

\* angles in radians handed to rotate_azimuth
Angles == { 0, S \div 2 }

\* pixels handed to get_ray, with the viewport
Pixels == { <<400, 300, 800, 600>> }

\* number of calls in one behaviour of SpecSeq, the construction included
MaxSeqSteps == 5

\* number of calls in one behaviour of SpecMat
MaxMatSteps == 3

\* a (3, 3) intrinsics matrix with focal length f and principal point (cx, cy)
Intrinsics(f, cx, cy) == <<Vec(f, 0, cx), Vec(0, f, cy), Vec(0, 0, S)>>

\* (scale, translation, cols, rows, near, far) handed to WeakPerspectiveCamera:
\* a single frame, three frames, two frames the second of scale 0, no frame,
\* and scale and translation of different lengths
WeakArgs ==
    { <<Arr(1, <<S, S>>), Arr(1, <<0, 0>>), 640, 480, S \div 10, Fix(10)>>,
      <<Arr(2, << <<S, S>>, <<S \div 2, Fix(2)>>, <<3 * (S \div 2), S>> >>),
        Arr(2, << <<0, 0>>, <<S \div 4, -S>>, <<S, S \div 2>> >>),
        600, 600, S, Fix(20)>>,
      <<Arr(2, << <<Fix(2), S>>, <<0, S>> >>),
        Arr(2, << <<S \div 10, 0>>, <<0, 0>> >>), 640, 480, S \div 10, Fix(10)>>,
      <<Arr(2, <<>>), Arr(2, <<>>), 640, 480, S \div 10, Fix(10)>>,
      <<Arr(2, << <<S, S>>, <<S, S>>, <<S, S>> >>),
        Arr(2, << <<0, 0>>, <<0, 0>> >>), 640, 480, S \div 10, Fix(10)>>,
      <<Arr(1, <<S, S>>),
        Arr(2, << <<0, 0>>, <<0, 0>> >>), 640, 480, S \div 10, Fix(10)>> }

\* Rt of a camera at (0, 0, -2) looking along +z, and of a camera turned a
\* quarter turn about y
RtFront == <<Row4(S, 0, 0, 0), Row4(0, S, 0, 0), Row4(0, 0, S, Fix(2))>>

RtSide == <<Row4(0, 0, -S, S \div 2), Row4(0, S, 0, 0), Row4(S, 0, 0, Fix(3))>>

\* (K, Rt, cols, rows, near, far) handed to OpenCVCamera: single matrices, a K
\* sequence with a single Rt, and K and Rt sequences of different and of equal
\* lengths
OpenCVArgs ==
    { <<Arr(2, Intrinsics(Fix(6), Fix(4), Fix(3))), Arr(2, RtFront), 8, 6, S \div 10, Fix(10)>>,
      <<Arr(2, Intrinsics(Fix(5), 7 * (S \div 2), Fix(3))), Arr(2, RtSide), 8, 6, S, Fix(20)>>,
      <<Arr(3, <<Intrinsics(Fix(6), Fix(4), Fix(3)), Intrinsics(Fix(5), Fix(4), Fix(3))>>),
        Arr(2, RtFront), 8, 6, S \div 10, Fix(10)>>,
      <<Arr(3, <<Intrinsics(Fix(6), Fix(4), Fix(3)), Intrinsics(Fix(5), Fix(4), Fix(3))>>),
        Arr(3, <<RtFront, RtSide, RtFront>>), 8, 6, S \div 10, Fix(10)>>,
      <<Arr(3, <<Intrinsics(Fix(6), Fix(4), Fix(3)), Intrinsics(Fix(5), Fix(4), Fix(3))>>),
        Arr(3, <<RtFront, RtSide>>), 8, 6, S \div 10, Fix(10)>> }

\* (width, height, distance) handed to show_frustum
FrustumArgs == { <<800, 600, S>>, <<600, 600, Fix(5)>> }

-----------------------------------------------------------------------------
(* Operations on a PinholeCamera *)

\* one more call is made: steps counts the calls still to come
Called(op) ==
    /\ steps > 0
    /\ steps' = steps - 1

IsPinhole == cam.kind = "pinhole"

\* a camera of any class has been constructed
HasCamera == cam.kind # "none"

\* a WeakPerspectiveCamera or an OpenCVCamera has been constructed
IsSequenceCamera == cam.kind \in {"weak", "opencv"}

\* another PinholeCamera is constructed and becomes the camera under observation;
\* the export directory and the configuration are those of the process
NewPinholeCamera ==
    /\ IsPinhole
    /\ Called("__init__")
    /\ \E a \in PinholeArgs : cam' = PinholeCamera(a[1], a[2], a[3], a[4])
    /\ result' = Outcome("__init__", "ok", NoRet, "")
    /\ UNCHANGED <<CONFIG, disk, viewer, saved, swept>>

UpdateMatrices ==
    /\ IsPinhole
    /\ Called("update_matrices")
    /\ \E v \in Viewports :
          /\ cam' = update_matrices(cam, v[1], v[2])
          /\ result' = WithArgs(Outcome("update_matrices", "ok", NoRet, ""), v)
    /\ UNCHANGED <<CONFIG, disk, viewer, saved, swept>>

GetProjectionMatrix ==
    /\ HasCamera
    /\ Called("get_projection_matrix")
    /\ result' = get_matrix("get_projection_matrix", cam.projection_matrix)
    /\ UNCHANGED <<cam, CONFIG, disk, viewer, saved, swept>>

GetViewMatrix ==
    /\ HasCamera
    /\ Called("get_view_matrix")
    /\ result' = get_matrix("get_view_matrix", cam.view_matrix)
    /\ UNCHANGED <<cam, CONFIG, disk, viewer, saved, swept>>

GetViewProjectionMatrix ==
    /\ HasCamera
    /\ Called("get_view_projection_matrix")
    /\ result' = get_matrix("get_view_projection_matrix", cam.view_projection_matrix)
    /\ UNCHANGED <<cam, CONFIG, disk, viewer, saved, swept>>

DollyZoom ==
    /\ IsPinhole
    /\ Called("dolly_zoom")
    /\ \E speed \in Speeds, move_target \in BOOLEAN :
          /\ cam' = dolly_zoom(cam, speed, move_target, CONFIG.camera_zoom_speed)
          /\ InRange(cam')
          /\ result' = WithArgs(Outcome("dolly_zoom", "ok", NoRet,
                                        IF move_target THEN "move_target" ELSE ""),
                                <<speed, move_target>>)
    /\ UNCHANGED <<CONFIG, disk, viewer, saved, swept>>

Pan ==
    /\ IsPinhole
    /\ Called("pan")
    /\ \E d \in PanDeltas : cam' = pan(cam, d[1], d[2]) /\ InRange(cam')
    /\ result' = Outcome("pan", "ok", NoRet, "")
    /\ UNCHANGED <<CONFIG, disk, viewer, saved, swept>>

\* reading self.view_matrix before any update_matrices raises AttributeError
RotateAzimuthElevation ==
    /\ IsPinhole
    /\ Called("rotate_azimuth_elevation")
    /\ \E d \in RotDeltas :
          IF cam.view_matrix.tag = "absent"
          THEN /\ cam' = cam
               /\ result' = Outcome("rotate_azimuth_elevation", "AttributeError", NoRet, "")
          ELSE /\ cam' = rotate_azimuth_elevation(cam, d[1], d[2])
               /\ InRange(cam')
               /\ result' = WithArgs(Outcome("rotate_azimuth_elevation", "ok", NoRet, ""), d)
    /\ UNCHANGED <<CONFIG, disk, viewer, saved, swept>>

RotateAzimuth ==
    /\ IsPinhole
    /\ Called("rotate_azimuth")
    /\ \E angle \in Angles :
          IF Abs(angle) = 0
          THEN /\ cam' = cam
               /\ result' = Outcome("rotate_azimuth", "ok", NoRet, "no-op")
          ELSE IF cam.view_matrix.tag = "absent"
               THEN /\ cam' = cam
                    /\ result' = Outcome("rotate_azimuth", "AttributeError", NoRet, "")
               ELSE /\ cam' = rotate_azimuth(cam, angle)
                    /\ InRange(cam')
                    /\ result' = Outcome("rotate_azimuth", "ok", NoRet, "")
    /\ UNCHANGED <<CONFIG, disk, viewer, saved, swept>>

GetRay ==
    /\ IsPinhole
    /\ Called("get_ray")
    /\ \E p \in Pixels :
          result' = IF cam.view_matrix.tag = "absent"
                    THEN Outcome("get_ray", "AttributeError", NoRet, "")
                    ELSE Outcome("get_ray", "ok", get_ray(cam, p[1], p[2], p[3], p[4]), "")
    /\ UNCHANGED <<cam, CONFIG, disk, viewer, saved, swept>>

\* os.makedirs when the directory is missing, then joblib.dump of cam_dict
SaveCam ==
    /\ IsPinhole
    /\ Called("save_cam")
    /\ disk' = [dir |-> TRUE, file |-> <<cam_dict(cam)>>]
    /\ saved' = <<Persisted(cam)>>
    /\ result' = Outcome("save_cam", "ok", NoRet, "")
    /\ UNCHANGED <<cam, CONFIG, viewer, swept>>

\* os.path.exists(cam_dir) decides; joblib.load opens cam_params.pkl
LoadCam ==
    /\ IsPinhole
    /\ Called("load_cam")
    /\ IF ~disk.dir
       THEN /\ cam' = cam
            /\ result' = Outcome("load_cam", "ok", NoRet, "camera config does not exist")
       ELSE IF disk.file = <<>>
            THEN /\ cam' = cam
                 /\ result' = Outcome("load_cam", "FileNotFoundError", NoRet, "")
            ELSE /\ cam' = load_cam(cam, disk.file[1])
                 /\ result' = Outcome("load_cam", "ok", NoRet, "")
    /\ UNCHANGED <<CONFIG, disk, viewer, saved, swept>>

\* a fresh PinholeCamera; the export directory holds no saved camera yet
Init ==
    /\ \E a \in PinholeArgs : cam = PinholeCamera(a[1], a[2], a[3], a[4])
    /\ \E z \in ZoomSpeeds : CONFIG = [camera_zoom_speed |-> z]
    /\ \E d \in BOOLEAN : disk = [dir |-> d, file |-> <<>>]
    /\ viewer = "none"
    /\ result = Outcome("__init__", "ok", NoRet, "")
    /\ saved = <<>>
    /\ swept = <<>>
    /\ steps = MaxSteps

Next ==
    \/ NewPinholeCamera
    \/ UpdateMatrices
    \/ GetProjectionMatrix
    \/ GetViewMatrix
    \/ GetViewProjectionMatrix
    \/ DollyZoom
    \/ Pan
    \/ RotateAzimuthElevation
    \/ RotateAzimuth
    \/ GetRay
    \/ SaveCam
    \/ LoadCam

Spec == Init /\ [][Next]_vars

-----------------------------------------------------------------------------
(* Sequences of dolly_zoom calls from any camera placement *)

\* distances between position and target at the start, all >= 0.01
DollyDistances == { S \div 100, 3 * (S \div 200), S \div 2, 5 * (S \div 2), Fix(3) }

\* the coordinate axis (and sense) the camera looks along at the start
DollyAxes == { Vec(0, 0, 1), Vec(0, 0, -1), Vec(1, 0, 0) }

\* a camera whose position and target attributes have been assigned
Placed(c, position, target) == [c EXCEPT !.position = position, !.target = target]

\* (fov, orthographic, znear, zfar) of the cameras that dolly: those of
\* PinholeArgs and an orthographic camera of size 0.25
DollyArgs == PinholeArgs \cup { <<60, <<S \div 4>>, S \div 10, Fix(10)>> }

InitDolly ==
    /\ \E a \in DollyArgs, d \in DollyDistances, ax \in DollyAxes :
          cam = Placed(PinholeCamera(a[1], a[2], a[3], a[4]),
                       Vec(d * ax[1], d * ax[2], d * ax[3]), Vec(0, 0, 0))
    /\ \E z \in ZoomSpeeds : CONFIG = [camera_zoom_speed |-> z]
    /\ disk = [dir |-> FALSE, file |-> <<>>]
    /\ viewer = "none"
    /\ result = Outcome("__init__", "ok", NoRet, "")
    /\ saved = <<>>
    /\ swept = <<>>
    /\ steps = MaxDollySteps

NextDolly == DollyZoom

SpecDolly == InitDolly /\ [][NextDolly]_vars

-----------------------------------------------------------------------------
(* Orbits of a PinholeCamera near the poles of its up axis *)

\* positions at distance about 2.5 of the target: almost above it, above it
\* within the band of slow azimuth, halfway up, and the same below
OrbitPositions ==
    { Vec(0, Fix(5) \div 2, S \div 20), Vec(0, Fix(5) \div 2, S \div 5),
      Vec(0, Fix(5) \div 2, Fix(5) \div 2),
      Vec(0, -(Fix(5) \div 2), S \div 20), Vec(0, -(Fix(5) \div 2), S \div 5) }

\* rotate_azimuth_elevation with the mouse deltas of the orbits
OrbitAzimuthElevation ==
    /\ IsPinhole
    /\ Called("rotate_azimuth_elevation")
    /\ \E d \in OrbitDeltas :
          IF cam.view_matrix.tag = "absent"
          THEN /\ cam' = cam
               /\ result' = Outcome("rotate_azimuth_elevation", "AttributeError", NoRet, "")
          ELSE /\ cam' = rotate_azimuth_elevation(cam, d[1], d[2])
               /\ InRange(cam')
               /\ result' = WithArgs(Outcome("rotate_azimuth_elevation", "ok", NoRet, ""), d)
    /\ UNCHANGED <<CONFIG, disk, viewer, saved, swept>>

\* a camera whose position has been assigned and whose matrices are up to date
InitOrbit ==
    /\ \E a \in PinholeArgs, p \in OrbitPositions :
          cam = update_matrices(Placed(PinholeCamera(a[1], a[2], a[3], a[4]),
                                       p, Vec(0, 0, 0)),
                                800, 600)
    /\ CONFIG = [camera_zoom_speed |-> S]
    /\ disk = [dir |-> FALSE, file |-> <<>>]
    /\ viewer = "none"
    /\ result = WithArgs(Outcome("update_matrices", "ok", NoRet, ""), <<800, 600>>)
    /\ saved = <<>>
    /\ swept = <<>>
    /\ steps = MaxOrbitSteps

NextOrbit ==
    \/ OrbitAzimuthElevation
    \/ UpdateMatrices

SpecOrbit == InitOrbit /\ [][NextOrbit]_vars

-----------------------------------------------------------------------------
(* Operations on a WeakPerspectiveCamera or an OpenCVCamera *)

\* the constructor is called; an exception leaves no camera
NewWeakPerspectiveCamera ==
    /\ cam.kind = "none"
    /\ Called("__init__")
    /\ \E a \in WeakArgs, has_viewer \in BOOLEAN :
          \E r \in { WeakPerspectiveCamera(a[1], a[2], a[3], a[4], a[5], a[6], has_viewer) } :
             /\ cam' = r.cam
             /\ result' = WithArgs(Outcome("WeakPerspectiveCamera.__init__", r.status,
                                           NoRet, ""), a)
    /\ UNCHANGED <<CONFIG, disk, viewer, saved, swept>>

NewOpenCVCamera ==
    /\ cam.kind = "none"
    /\ Called("__init__")
    /\ \E a \in OpenCVArgs, has_viewer \in BOOLEAN :
          \E r \in { OpenCVCamera(a[1], a[2], a[3], a[4], a[5], a[6], has_viewer) } :
             /\ cam' = r.cam
             /\ result' = WithArgs(Outcome("OpenCVCamera.__init__", r.status, NoRet, ""), a)
    /\ UNCHANGED <<CONFIG, disk, viewer, saved, swept>>

\* the viewer scrubs to another frame of the sequence: Node.current_frame_id = i
SetCurrentFrame ==
    /\ IsSequenceCamera
    /\ Called("current_frame_id")
    /\ \E i \in 0..(cam.n_frames - 1) :
          /\ i # cam.current_frame_id
          /\ cam' = [cam EXCEPT !.current_frame_id = i]
    /\ result' = Outcome("current_frame_id", "ok", NoRet, "")
    /\ UNCHANGED <<CONFIG, disk, viewer, saved, swept>>

SeqUpdateMatrices ==
    /\ IsSequenceCamera
    /\ Called("update_matrices")
    /\ \E v \in Viewports :
          \E r \in { seq_update_matrices(cam, v[1], v[2]) } :
             /\ cam' = r.cam
             /\ result' = WithArgs(Outcome("update_matrices", r.status, NoRet, ""), v)
    /\ UNCHANGED <<CONFIG, disk, viewer, saved, swept>>

ShowFrustum ==
    /\ IsSequenceCamera
    /\ Called("show_frustum")
    /\ \E a \in FrustumArgs :
          \E r \in { show_frustum(cam, a[1], a[2], a[3]) } :
             /\ cam' = r.cam
             /\ result' = WithArgs(Outcome("show_frustum", r.status, NoRet, ""), a)
             /\ swept' = r.trace
    /\ UNCHANGED <<CONFIG, disk, viewer, saved>>

HideFrustum ==
    /\ IsSequenceCamera
    /\ Called("hide_frustum")
    /\ cam' = hide_frustum(cam)
    /\ result' = Outcome("hide_frustum", "ok", NoRet, "")
    /\ UNCHANGED <<CONFIG, disk, viewer, saved, swept>>

\* with a viewer, the viewer is told to look through this camera
ViewFromCamera ==
    /\ IsSequenceCamera
    /\ Called("view_from_camera")
    /\ cam' = view_from_camera(cam)
    /\ viewer' = IF cam.viewer THEN "temp_camera" ELSE viewer
    /\ result' = Outcome("view_from_camera", "ok", NoRet, "")
    /\ UNCHANGED <<CONFIG, disk, saved, swept>>

\* a viewer is running with its own camera; no sequence camera exists yet
InitSeq ==
    /\ cam = NoCamera
    /\ CONFIG = [camera_zoom_speed |-> S]
    /\ disk = [dir |-> FALSE, file |-> <<>>]
    /\ viewer = "own_camera"
    /\ result = Outcome("", "ok", NoRet, "")
    /\ saved = <<>>
    /\ swept = <<>>
    /\ steps = MaxSeqSteps

NextSeq ==
    \/ NewWeakPerspectiveCamera
    \/ NewOpenCVCamera
    \/ SetCurrentFrame
    \/ SeqUpdateMatrices
    \/ ShowFrustum
    \/ HideFrustum
    \/ ViewFromCamera

SpecSeq == InitSeq /\ [][NextSeq]_vars

-----------------------------------------------------------------------------
(* update_matrices and the getters on cameras of the three classes *)

\* where the PinholeCamera stands at the start
MatPositions == { Vec(0, 0, 5 * (S \div 2)), Vec(Fix(1), Fix(2), Fix(2)) }

\* the cameras constructed without an exception
MatCameras ==
    { Placed(PinholeCamera(a[1], a[2], a[3], a[4]), p, Vec(0, 0, 0)) :
         a \in PinholeArgs, p \in MatPositions }
    \cup { r.cam : r \in { x \in { WeakPerspectiveCamera(a[1], a[2], a[3], a[4], a[5],
                                                          a[6], FALSE) : a \in WeakArgs }
                             : x.status = "ok" } }
    \cup { r.cam : r \in { x \in { OpenCVCamera(a[1], a[2], a[3], a[4], a[5], a[6], FALSE)
                                    : a \in OpenCVArgs }
                             : x.status = "ok" } }

InitMat ==
    /\ cam \in MatCameras
    /\ CONFIG = [camera_zoom_speed |-> S]
    /\ disk = [dir |-> FALSE, file |-> <<>>]
    /\ viewer = "none"
    /\ result = Outcome("__init__", "ok", NoRet, "")
    /\ saved = <<>>
    /\ swept = <<>>
    /\ steps = MaxMatSteps

NextMat ==
    \/ UpdateMatrices
    \/ SeqUpdateMatrices
    \/ SetCurrentFrame
    \/ GetProjectionMatrix
    \/ GetViewMatrix
    \/ GetViewProjectionMatrix

SpecMat == InitMat /\ [][NextMat]_vars

-----------------------------------------------------------------------------
(* Properties of the PinholeCamera *)

GetterOps == {"get_projection_matrix", "get_view_matrix", "get_view_projection_matrix"}

\* the attribute a getter reads
GetterAttr(op) ==
    CASE op = "get_projection_matrix" -> cam.projection_matrix
      [] op = "get_view_matrix" -> cam.view_matrix
      [] op = "get_view_projection_matrix" -> cam.view_projection_matrix

\* C1: a matrix getter called on a camera on which update_matrices has never
\* run fails with the "update_matrices() must be called before" ValueError and
\* returns no matrix; once update_matrices has run it returns the cached matrix.
C1_GetterNotReadyBeforeUpdate ==
    result.op \in GetterOps =>
        IF GetterAttr(result.op).tag = "value"
        THEN result.status = "ok" /\ result.ret = <<GetterAttr(result.op).m>>
        ELSE result.status = "ValueError" /\ result.ret = NoRet

\* ||target - position||
Distance(c) == Norm(VSub(c.target, c.position))

C4_LoadMissingFileNonFatal ==
    [][(result'.op = "load_cam" /\ steps' # steps /\ disk.file = <<>>) =>
          /\ result'.status = "ok"
          /\ result'.diag # ""
          /\ Persisted(cam') = Persisted(cam)]_vars

Cached(c) == <<c.projection_matrix, c.view_matrix, c.view_projection_matrix>>

\* C8: a call other than update_matrices (and the construction of a camera)
\* leaves the three cached matrices as they were.
C8_OnlyUpdateMutatesCache ==
    [][result'.op \notin {"update_matrices", "__init__"} => Cached(cam') = Cached(cam)]_vars

\* after a navigation call the cache still holds the view of the earlier
\* placement, and a getter returns it
C8_Witness ==
    /\ result.op = "get_view_matrix"
    /\ result.status = "ok"
    /\ result.ret = <<cam.view_matrix.m>>
    /\ cam.view_matrix.m # astype_f4(look_at(cam.position, cam.target, cam.up))

\* C9: pan moves position and target by the same vector, so target - position
\* is the same after the call as before, and leaves up alone.
C9_PanKeepsViewDirection ==
    [][(result'.op = "pan" /\ steps' # steps) =>
          /\ VSub(cam'.target, cam'.position) = VSub(cam.target, cam.position)
          /\ cam'.up = cam.up]_vars

\* a pan with both deltas non-zero has moved the target off every axis plane
C9_Witness ==
    /\ result.op = "pan"
    /\ cam.target[1] # 0
    /\ cam.target[2] # 0

-----------------------------------------------------------------------------
(* Properties of the sequence cameras and of the frustum visualisation *)

\* C3: when show_frustum returns, current_frame_id has the value it had when
\* show_frustum was called, whatever the number of frames and the frame selected.
C3_ShowFrustumRestoresFrame ==
    [][(result'.op = "show_frustum" /\ steps' # steps /\ result'.status = "ok") =>
          cam'.current_frame_id = cam.current_frame_id]_vars

\* show_frustum has swept the three frames of a camera whose frame 1, neither
\* the first nor the last, is selected
C3_Witness ==
    /\ result.op = "show_frustum"
    /\ result.status = "ok"
    /\ cam.n_frames = 3
    /\ cam.current_frame_id = 1
    /\ \E i \in Children(cam, "Lines") : Len(cam.nodes[i].lines) = 3

\* the three matrices update_matrices(width, height) computes for camera c
PVOf(c, width, height) ==
    CASE c.kind = "pinhole" -> pinhole_PV(c, width, height)
      [] c.kind = "weak" -> weak_PV(c, width, height)
      [] c.kind = "opencv" -> opencv_PV(c, width, height)

\* update_matrices has just returned on the camera
Updated == result.op = "update_matrices" /\ result.status = "ok"

\* C6 as stated: after update_matrices(w, h) the cached view-projection matrix
\* is exactly the single-precision product of the matrices the projection and
\* view getters return.
C6_ViewProjectionIsProductOfGetters ==
    Updated =>
        cam.view_projection_matrix.m
            = MatMulF4(cam.projection_matrix.m, cam.view_matrix.m)

\* C6 amended: after update_matrices(w, h), for each camera class, the
\* projection and view getters return the double-precision P and V rounded to
\* single precision, and the view-projection getter returns the double-precision
\* product P @ V rounded once to single precision.
C6_ViewProjectionIsRoundedProduct ==
    Updated =>
        \E PV \in { PVOf(cam, result.args[1], result.args[2]) } :
           /\ cam.projection_matrix = Value(astype_f4(PV[1]))
           /\ cam.view_matrix = Value(astype_f4(PV[2]))
           /\ cam.view_projection_matrix = Value(astype_f4(MatMul(PV[1], PV[2])))

\* an OpenCVCamera whose cached view-projection matrix differs from the
\* single-precision product of its cached projection and view matrices
C6_Witness ==
    /\ Updated
    /\ cam.kind = "opencv"
    /\ cam.view_projection_matrix.m
           # MatMulF4(cam.projection_matrix.m, cam.view_matrix.m)

\* the number of frames of an array argument
FrameCount(a, single_ndim) == Len(Frames(a, single_ndim))

\* the constructor just called was handed per-frame arrays of different lengths
MismatchedLengths ==
    \/ /\ result.op = "WeakPerspectiveCamera.__init__"
       /\ FrameCount(result.args[1], 1) # FrameCount(result.args[2], 1)
    \/ /\ result.op = "OpenCVCamera.__init__"
       /\ FrameCount(result.args[1], 2) # FrameCount(result.args[2], 2)

\* C7: a sequence camera constructed from per-frame arrays of different lengths
\* (scale and translation, or K and Rt) fails at construction and no camera
\* exists afterwards.
C7_MismatchedLengthsFailConstruction ==
    MismatchedLengths => (result.status # "ok" /\ cam.kind = "none")

\* the identities of the children of class cls
AttachedIds(c, cls) == { c.nodes[i].id : i \in Children(c, cls) }

\* the identities an optional reference holds
Referenced(ref) == { ref[i] : i \in 1..Len(ref) }

\* C10: the camera node has at most one Lines child and at most one
\* RigidBodies child, frustum and origin reference exactly the attached ones,
\* after hide_frustum, or view_from_camera with a viewer, both are None and no
\* such child is attached, and after show_frustum the attached ones are those
\* the call created, with one entry of lines per frame.
C10_FrustumLifecycle ==
    IsSequenceCamera =>
        /\ Cardinality(Children(cam, "Lines")) <= 1
        /\ Cardinality(Children(cam, "RigidBodies")) <= 1
        /\ AttachedIds(cam, "Lines") = Referenced(cam.frustum)
        /\ AttachedIds(cam, "RigidBodies") = Referenced(cam.origin)
        /\ (result.op = "hide_frustum" \/ (result.op = "view_from_camera" /\ cam.viewer))
              => (cam.frustum = <<>> /\ cam.origin = <<>>)
        /\ (result.op = "show_frustum" /\ result.status = "ok")
              => /\ cam.frustum = <<cam.next_id - 2>>
                 /\ cam.origin = <<cam.next_id - 1>>
                 /\ \A i \in Children(cam, "Lines") :
                       Len(cam.nodes[i].lines) = cam.n_frames

\* a second show_frustum has replaced the frustum and the origin of the first
C10_Witness ==
    /\ IsSequenceCamera
    /\ result.op = "show_frustum"
    /\ result.status = "ok"
    /\ cam.n_frames = 3
    /\ cam.frustum = <<4>>
    /\ cam.origin = <<5>>
    /\ Len(cam.nodes) = 3

\* the steps of the loop of show_frustum on frames i .. n - 1, as the claim
\* orders them
RECURSIVE ExpectedSweep(_, _)
ExpectedSweep(i, n) ==
    IF i >= n THEN <<>>
    ELSE << <<"current_frame_id", i>>, <<"update_matrices", i>>,
            <<"get_view_matrix", i>>, <<"get_projection_matrix", i>> >>
         \o ExpectedSweep(i + 1, n)

\* the lines of frame i of camera c for show_frustum(width, height, distance),
\* from the parameters of frame i alone
ExpectedLines(c, i, width, height, distance) ==
    Eval2(LAMBDA PV, world_p :
             Eval1(LAMBDA M :
                      Eval1(LAMBDA ndc_p : FrameLines(M, Div(ndc_p[3], ndc_p[4])),
                            Homogeneous(M, world_p)),
                   MatMulF4(astype_f4(PV[1]), astype_f4(PV[2]))),
          PVOf([c EXCEPT !.current_frame_id = i], width, height),
          VAdd(cam_position(c), VScale(cam_forward(c), distance)))

\* C11: a show_frustum that returns has, for i = 0 .. n_frames - 1 in this
\* order and once each, selected frame i, then called update_matrices, then
\* read the view and projection matrices; the Lines it attached hold n_frames
\* entries of 24 points, entry i computed from the parameters of frame i.
C11_SweepVisitsEveryFrame ==
    (IsSequenceCamera /\ result.op = "show_frustum" /\ result.status = "ok") =>
        /\ swept = ExpectedSweep(0, cam.n_frames)
        /\ \A k \in Children(cam, "Lines") :
              /\ Len(cam.nodes[k].lines) = cam.n_frames
              /\ \A i \in 1..cam.n_frames :
                    /\ Len(cam.nodes[k].lines[i].ndc) = 24
                    /\ cam.nodes[k].lines[i]
                          = ExpectedLines(cam, i - 1, result.args[1], result.args[2],
                                          result.args[3])

\* show_frustum has swept three frames whose matrices differ from one another,
\* on a camera whose frame 1 is selected
C11_Witness ==
    /\ IsSequenceCamera
    /\ result.op = "show_frustum"
    /\ result.status = "ok"
    /\ cam.n_frames = 3
    /\ Len(swept) = 12
    /\ cam.current_frame_id = 1
    /\ \E k \in Children(cam, "Lines") :
          /\ cam.nodes[k].lines[1].ndc_from_world # cam.nodes[k].lines[2].ndc_from_world
          /\ cam.nodes[k].lines[2].ndc_from_world # cam.nodes[k].lines[3].ndc_from_world
          /\ cam.nodes[k].lines[1].ndc_from_world # cam.nodes[k].lines[3].ndc_from_world

\* C12: rotate_azimuth_elevation(dx, dy), with dot the product of the z axis of
\* the inverse of the cached view matrix and up, skips the elevation rotation
\* exactly when (dy > 0, dot > 0, 1 - dot < 0.001) or (dy < 0, dot < 0,
\* 1 + dot < 0.001), applies the azimuth rotation after it with speed
\* ROT_FACTOR / 10 when 1 - |dot| < 0.01 and ROT_FACTOR otherwise, and changes
\* position only.
C12_OrbitBranches ==
    [][(result'.op = "rotate_azimuth_elevation" /\ steps' # steps
          /\ result'.status = "ok") =>
          LET dx   == result'.args[1]
              dy   == result'.args[2]
              pose == inv(cam.view_matrix.m)
              dot  == Dot(Col3(pose, 3), cam.up)
              skip == \/ (dy > 0 /\ dot > 0 /\ S - dot < S \div 1000)
                      \/ (dy < 0 /\ dot < 0 /\ S + dot < S \div 1000)
              speed == IF S - Abs(dot) < S \div 100
                       THEN Div(cam.ROT_FACTOR, Fix(10)) ELSE cam.ROT_FACTOR
              elevation == IF skip THEN Eye4
                           ELSE MatMul(rotation_matrix(cam.ROT_FACTOR * (-dy),
                                                       Col3(pose, 1), cam.target), Eye4)
              rot  == MatMul(rotation_matrix(speed * (-dx), Col3(pose, 2), cam.target),
                             elevation)
          IN  cam' = [cam EXCEPT !.position = _transform_vector(rot, cam.position)]]_vars

\* an upward drag on a camera almost above its target: the cached view matrix,
\* which the call left alone, gives 1 - dot < 0.001, and the call moved the camera
C12_Witness ==
    /\ result.op = "rotate_azimuth_elevation"
    /\ result.status = "ok"
    /\ result.args[2] > 0
    /\ result.args[1] # 0
    /\ pole_dot(cam) > 0
    /\ S - pole_dot(cam) < S \div 1000
    /\ cam.position[1] # 0


\* ---------------------------------------------------------------------
\* C13: every dolly_zoom(speed, move_target) call sets ortho_size to
\* max(0.0001, ortho_size - 0.1 * sign(speed)), with the sign of the speed
\* as passed, whether or not the camera is orthographic and in both
\* move_target modes; so ortho_size >= 0.0001 after the call; and with
\* move_target the vector target - position is the one before the call.
C13_DollyOrthoSize ==
    [][(result'.op = "dolly_zoom" /\ steps' # steps) =>
          /\ cam'.ortho_size =
                 Max(S \div 10000,
                     cam.ortho_size - (S \div 10) * Sign(result'.args[1]))
          /\ cam'.ortho_size >= S \div 10000
          /\ cam'.is_ortho = cam.is_ortho
          /\ result'.args[2] =>
                 /\ VSub(cam'.target, cam'.position) = VSub(cam.target, cam.position)
                 /\ cam'.target # cam.target]_vars

\* a forward dolly with move_target has brought ortho_size down to the
\* limit 0.0001 and moved the target off the origin
C13_Witness ==
    /\ result.op = "dolly_zoom"
    /\ result.args[1] > 0
    /\ result.args[2]
    /\ cam.ortho_size = S \div 10000
    /\ cam.target # Vec(0, 0, 0)


\* ---------------------------------------------------------------------
\* the cache update_matrices(width, height) leaves when frame i is selected
CacheOfFrame(c, i, width, height) ==
    Cached(seq_update_matrices([c EXCEPT !.current_frame_id = i], width, height).cam)

\* show_frustum has returned on a camera of more than one frame
SweptSequence ==
    /\ result.op = "show_frustum"
    /\ result.status = "ok"
    /\ cam.n_frames > 1

\* C14: when show_frustum(width, height, distance) returns on a sequence
\* camera of more than one frame, the three cached matrices are those of the
\* frame at the restored current_frame_id.
C14_SweepLeavesCacheOfRestoredFrame ==
    SweptSequence =>
        Cached(cam) = CacheOfFrame(cam, cam.current_frame_id,
                                   result.args[1], result.args[2])

\* when show_frustum returns, the three cached matrices are those of the
\* last frame of the sequence, the last one the loop has updated
SweepLeavesCacheOfLastFrame ==
    SweptSequence =>
        Cached(cam) = CacheOfFrame(cam, cam.n_frames - 1,
                                   result.args[1], result.args[2])

\* show_frustum has returned with frame 0 restored and the cache of another
\* frame
StaleCacheAfterSweep ==
    /\ SweptSequence
    /\ cam.current_frame_id = 0
    /\ Cached(cam) # CacheOfFrame(cam, 0, result.args[1], result.args[2])

=============================================================================
